---- MODULE Spec2Model ----
(***************************************************************************)
(* A model of the YouTube-transcript chat application:                     *)
(*   - the page component (src/app/page.tsx): its React state, the          *)
(*     handlers handleSubmit (ingestion) and handleSearch (question         *)
(*     answering) cut at their await points;                                *)
(*   - the vector-store route (src/unnamed/part_000): POST with the         *)
(*     operations upsert and query;                                         *)
(*   - the external collaborators (transcript endpoint, embedding           *)
(*     provider, vector index, completion route) as nondeterministic        *)
(*     outcomes.                                                            *)
(* A string is a sequence of one-character strings; null is the empty       *)
(* option <<>> and a present value v is <<v>>.                              *)
(***************************************************************************)
EXTENDS Integers, Sequences, FiniteSets, TLC

VARIABLES
  \* React state of Home (page.tsx 33-43)
  url, transcript, error, chunks, isLoading, searchQuery, searchResults,
  processingStatus, formattedResults, messages,
  \* the running handler: position and locals
  pc, closureUrl, videoId, textChunks, i, chunksWithEmbeddings, query,
  \* requests of the page that are outstanding
  inflight,
  \* the vector-store route: the request it is serving and its response
  route, resp,
  \* the vector index "yt"
  index,
  \* observation: external calls and progress reports of the current run,
  \* the batches written for the current upsert request, how the latest
  \* run ended, the completed ingestions, and counters of runs and url edits
  log, reports, written, outcome, done, nOps, nEdits,
  \* a second client of the route: the request of its that the route is
  \* serving and the response to it
  peer, peerResp

pageVars  == <<url, transcript, error, chunks, isLoading, searchQuery,
               searchResults, processingStatus, formattedResults, messages>>
localVars == <<pc, closureUrl, videoId, textChunks, i, chunksWithEmbeddings, query>>
routeVars == <<route, resp>>
obsVars   == <<log, reports, written, outcome, done, nOps, nEdits>>
peerVars  == <<peer, peerResp>>
vars      == <<pageVars, localVars, inflight, routeVars, index, obsVars, peerVars>>

----------------------------------------------------------------------------
\* Bounds of the model
MaxChunks    == 1     \* chunks of a transcript in a session
MaxBigChunks == 250   \* chunks of a transcript in the long ingestion runs
MaxOps       == 3     \* handler invocations in a session
MaxEdits     == 1     \* edits of the url field in a session
Dim          == 2     \* dimensionality of the index and of the embeddings
MaxLiveChunks   == 101  \* chunks of a transcript in the runs checked for termination
MaxAskChunks    == 6    \* chunks of a transcript in the sessions of questions
MaxSharedChunks == 101  \* chunks of a transcript ingested beside a second client
MaxPeerChunks   == 101  \* vectors of the second client's largest upsert

\* Program constants
batchSize  == 5
BATCH_SIZE == 100
topK       == 5

Null    == <<>>
Some(x) == <<x>>
IsNull(o) == o = <<>>
The(o)  == o[1]

Min(a, b) == IF a < b THEN a ELSE b
Ceil(a, b) == (a + b - 1) \div b

----------------------------------------------------------------------------
\* Strings

DigitChars == <<"0", "1", "2", "3", "4", "5", "6", "7", "8", "9">>

\* Number -> decimal string, as a template literal prints an index
RECURSIVE Digits(_)
Digits(n) == IF n < 10 THEN <<DigitChars[n + 1]>>
             ELSE Digits(n \div 10) \o <<DigitChars[(n % 10) + 1]>>

Str_chunk == <<"c", "h", "u", "n", "k">>

\* Variant: the identifier leaves the video out
ChunkId_NoVideo(vid, k) == Str_chunk \o <<"-">> \o Digits(k)

\* `chunk-${videoId}-${index}`
ChunkId(vid, k) == Str_chunk \o <<"-">> \o vid \o <<"-">> \o Digits(k)

IsSpace(ch) == ch = " "

\* String.prototype.trim
RECURSIVE TrimLeft(_)
TrimLeft(s) == IF s # <<>> /\ IsSpace(Head(s)) THEN TrimLeft(Tail(s)) ELSE s
RECURSIVE TrimRight(_)
TrimRight(s) == IF s # <<>> /\ IsSpace(s[Len(s)])
                THEN TrimRight(SubSeq(s, 1, Len(s) - 1)) ELSE s
Trim(s) == TrimRight(TrimLeft(s))

\* JavaScript truthiness of a string-or-null
Falsy(o) == IsNull(o) \/ The(o) = <<>>

----------------------------------------------------------------------------
\* URLs: whether new URL(url) parses, and its search parameters in order

VidA == <<"a">>
VidB == <<"a", "-", "1">>

UrlBad   == [parses |-> FALSE, search |-> <<>>]
UrlNoV   == [parses |-> TRUE,  search |-> << <<"t", <<"9">> >> >>]
UrlA     == [parses |-> TRUE,  search |-> << <<"v", VidA>> >>]
UrlB     == [parses |-> TRUE,  search |-> << <<"t", <<"9">> >>, <<"v", VidB>> >>]
Urls == {UrlBad, UrlNoV, UrlA, UrlB}

\* URLSearchParams.get: the first value of the key, or null
RECURSIVE ParamGet(_, _)
ParamGet(search, key) ==
  IF search = <<>> THEN Null
  ELSE IF Head(search)[1] = key THEN Some(Head(search)[2])
  ELSE ParamGet(Tail(search), key)

\* Variant: a url without an identifier gives the identifier of video A
extractVideoId_Default(u) ==
  IF u.parses /\ ~IsNull(ParamGet(u.search, "v")) THEN ParamGet(u.search, "v")
  ELSE Some(VidA)

\* new URL(url), then searchParams.get('v'); null when the url does not parse
extractVideoId(u) == IF u.parses THEN ParamGet(u.search, "v") ELSE Null

----------------------------------------------------------------------------
\* Transcripts and segmentation

BlankPiece == <<" ">>
ChunkText(k) == <<"c">> \o Digits(k)

\* A transcript body: n pieces of text, or whitespace only
TranscriptOf(n) == [k \in 1..n |-> ChunkText(k - 1)]
WhiteTranscript == <<BlankPiece>>

\* chunkText: the splitter's documents, in order; blank pieces give none
chunkText(data) == SelectSeq(data, LAMBDA p : Trim(p) # <<>>)

----------------------------------------------------------------------------
\* Embedding provider: a vector of Dim numbers per text, in input order

CharCode(ch) ==
  IF \E d \in 1..10 : DigitChars[d] = ch
  THEN (CHOOSE d \in 1..10 : DigitChars[d] = ch) - 1
  ELSE IF ch = " " THEN 10 ELSE IF ch = "c" THEN 11 ELSE 12

RECURSIVE TextCode(_)
TextCode(s) == IF s = <<>> THEN 0
               ELSE TextCode(SubSeq(s, 1, Len(s) - 1)) * 13 + CharCode(s[Len(s)])

Embedding(text) == [d \in 1..Dim |-> TextCode(text) + d]

\* response.data.map(item => item.embedding)
getEmbeddings(texts) == [k \in 1..Len(texts) |-> Embedding(texts[k])]

----------------------------------------------------------------------------
\* Helpers of the handlers

\* Variant: the slice runs to the end of the array
Slice_ToEnd(s, from, to) == SubSeq(s, from + 1, Len(s))

\* Array.prototype.slice(from, to), indices from 0
Slice(s, from, to) == SubSeq(s, from + 1, Min(to, Len(s)))

Call(name, arg) == [call |-> name, arg |-> arg]

\* handleSubmit's catch: setError(err.message || 'An error occurred')
CatchMessage(msg) == IF msg = "" THEN "An error occurred" ELSE msg

\* Messages of errors thrown by a provider or a library
ThrownMessages == {"", "Request failed"}

\* The first progress record of handleSubmit
InitialStatus(totalChunks) ==
  [totalChunks     |-> totalChunks,
   processedChunks |-> 0,
   currentBatch    |-> 1,
   totalBatches    |-> Ceil(totalChunks, batchSize),
   status          |-> "processing"]

\* Variant: processedChunks forgets the chunks of the earlier sub-batches
BatchStatus_OnlyThisBatch(prev, from, batchLen, totalChunks) ==
  IF IsNull(prev) THEN Null
  ELSE Some([The(prev) EXCEPT
         !.processedChunks = batchLen,
         !.currentBatch    = ((from + batchLen) \div batchSize) + 1])

\* Variant: processedChunks advances by a full sub-batch, without the min
BatchStatus_NoMin(prev, from, batchLen, totalChunks) ==
  IF IsNull(prev) THEN Null
  ELSE Some([The(prev) EXCEPT
         !.processedChunks = from + batchSize,
         !.currentBatch    = ((from + batchLen) \div batchSize) + 1])

\* The functional update after an embedding sub-batch
BatchStatus(prev, from, batchLen, totalChunks) ==
  IF IsNull(prev) THEN Null
  ELSE Some([The(prev) EXCEPT
         !.processedChunks = Min(from + batchLen, totalChunks),
         !.currentBatch    = ((from + batchLen) \div batchSize) + 1])

\* The progress record storeInPinecone sets before its request
StoreStatus(vectors) ==
  [totalChunks     |-> Len(vectors),
   processedChunks |-> 0,
   currentBatch    |-> 0,
   totalBatches    |-> Ceil(Len(vectors), BATCH_SIZE),
   status          |-> "Starting batch processing..."]

\* The functional update at the end of handleSubmit
CompletedStatus(prev) ==
  IF IsNull(prev) THEN Null ELSE Some([The(prev) EXCEPT !.status = "completed"])

\* Variant: the embeddings of a sub-batch are paired in reverse
EmbeddedBatch_Reversed(batch, embeddings, vid, from) ==
  [j \in 1..Len(batch) |->
     [text      |-> batch[j],
      embedding |-> embeddings[Len(batch) + 1 - j],
      id        |-> ChunkId(vid, from + (j - 1))]]

\* Variant: the identifier counts within the sub-batch (j, not i + j)
EmbeddedBatch_LocalId(batch, embeddings, vid, from) ==
  [j \in 1..Len(batch) |->
     [text      |-> batch[j],
      embedding |-> embeddings[j],
      id        |-> ChunkId(vid, j - 1)]]

\* The chunks pushed for one embedding sub-batch starting at chunk `from`
EmbeddedBatch(batch, embeddings, vid, from) ==
  [j \in 1..Len(batch) |->
     [text      |-> batch[j],
      embedding |-> embeddings[j],
      id        |-> ChunkId(vid, from + (j - 1))]]

\* Variant: the identifier carries the time of the run
BuildVectors_TimedId(cs, vid, u, now) ==
  [k \in 1..Len(cs) |->
     [id       |-> ChunkId(vid \o <<"-">> \o Digits(now), k - 1),
      values   |-> cs[k].embedding,
      metadata |-> [type       |-> "transcript",
                    videoId    |-> vid,
                    chunkIndex |-> k - 1,
                    timestamp  |-> now,
                    text       |-> cs[k].text,
                    url        |-> u]]]

\* storeInPinecone's vectors: chunks.map((chunk, index) => ...)
BuildVectors(cs, vid, u, now) ==
  [k \in 1..Len(cs) |->
     [id       |-> ChunkId(vid, k - 1),
      values   |-> cs[k].embedding,
      metadata |-> [type       |-> "transcript",
                    videoId    |-> vid,
                    chunkIndex |-> k - 1,
                    timestamp  |-> now,
                    text       |-> cs[k].text,
                    url        |-> u]]]

\* How a run stands: its kind, its result and the step that failed
Outcome(kind, result, step) == [kind |-> kind, result |-> result, step |-> step]

\* Variant: the loop stops one sub-batch early
LoopContinues_StopsEarly(next, totalChunks) == next + batchSize < totalChunks

\* The for loop's condition of handleSubmit
LoopContinues(next, totalChunks) == next < totalChunks

RouteIdle == [op |-> "none", vectors |-> <<>>, i |-> 0, vector |-> <<>>, filter |-> Null]

----------------------------------------------------------------------------
Init ==
  /\ url = UrlA
  /\ transcript = <<>>
  /\ error = ""
  /\ chunks = <<>>
  /\ isLoading = FALSE
  /\ searchQuery = <<>>
  /\ searchResults = <<>>
  /\ processingStatus = Null
  /\ formattedResults = <<>>
  /\ messages = <<>>
  /\ pc = "idle"
  /\ closureUrl = UrlA
  /\ videoId = Null
  /\ textChunks = <<>>
  /\ i = 0
  /\ chunksWithEmbeddings = <<>>
  /\ query = <<>>
  /\ inflight = {}
  /\ route = RouteIdle
  /\ resp = Null
  /\ index = <<>>
  /\ log = <<>>
  /\ reports = <<>>
  /\ written = <<>>
  /\ outcome = Outcome("none", "none", "none")
  /\ done = <<>>
  /\ nOps = 0
  /\ nEdits = 0
  /\ peer = RouteIdle
  /\ peerResp = Null

----------------------------------------------------------------------------
\* Ingestion: handleSubmit and storeInPinecone

\* The url field's onChange
SetUrl(u) ==
  /\ u # url
  /\ nEdits < MaxEdits
  /\ nEdits' = nEdits + 1
  /\ url' = u
  /\ UNCHANGED <<transcript, error, chunks, isLoading, searchQuery, searchResults,
                 processingStatus, formattedResults, messages>>
  /\ UNCHANGED <<localVars, inflight, routeVars, index, log, reports, written,
                 outcome, done, nOps, peerVars>>

\* Variant: the catch without the finally
SubmitFailed_StaysLoading(msg, step) ==
  /\ error' = CatchMessage(msg)
  /\ outcome' = Outcome("ingest", "failed", step)
  /\ isLoading' = TRUE
  /\ pc' = "idle"
  /\ inflight' = {}

\* handleSubmit's catch and finally
SubmitFailed(msg, step) ==
  /\ error' = CatchMessage(msg)
  /\ outcome' = Outcome("ingest", "failed", step)
  /\ isLoading' = FALSE
  /\ pc' = "idle"
  /\ inflight' = {}

\* Variant: the results of the last question are kept
SubmitResets_KeepsResults ==
  /\ transcript' = <<>>
  /\ chunks' = <<>>
  /\ UNCHANGED <<searchResults, formattedResults>>

\* The resets at the head of handleSubmit (error is reset with them, and set
\* again by the catch when the run fails at once)
SubmitResets ==
  /\ transcript' = <<>>
  /\ chunks' = <<>>
  /\ searchResults' = <<>>
  /\ formattedResults' = <<>>

\* handleSubmit up to its first await, the session's `limit` not yet reached
StartSubmitWithin(limit) ==
  /\ pc = "idle"
  /\ ~isLoading
  /\ nOps < limit
  /\ nOps' = nOps + 1
  /\ closureUrl' = url
  /\ SubmitResets
  /\ reports' = <<>>
  /\ written' = <<>>
  /\ videoId' = extractVideoId(url)
  /\ textChunks' = <<>>
  /\ chunksWithEmbeddings' = <<>>
  /\ i' = 0
  /\ IF Falsy(extractVideoId(url))
     THEN /\ SubmitFailed("Invalid YouTube URL", "videoId")
          /\ log' = <<>>
     ELSE /\ isLoading' = TRUE
          /\ error' = ""
          /\ outcome' = Outcome("ingest", "running", "none")
          /\ pc' = "transcript"
          /\ inflight' = {Call("transcript", 0)}
          /\ log' = <<Call("transcript", 0)>>
  /\ UNCHANGED <<url, searchQuery, processingStatus, messages, query,
                 routeVars, index, done, nEdits, peerVars>>

\* The transcript request fails: fetch throws, or the status is not ok
TranscriptFail ==
  /\ pc = "transcript"
  /\ Call("transcript", 0) \in inflight
  /\ \E msg \in {"Failed to fetch", "Failed to fetch transcript: "} :
       SubmitFailed(msg, "transcript")
  /\ UNCHANGED <<url, transcript, chunks, searchQuery, searchResults,
                 processingStatus, formattedResults, messages>>
  /\ UNCHANGED <<closureUrl, videoId, textChunks, i, chunksWithEmbeddings, query>>
  /\ UNCHANGED <<routeVars, index, log, reports, written, done, nOps, nEdits, peerVars>>

\* The transcript arrives: setTranscript(data), then chunkText is awaited
TranscriptOk(maxN) ==
  /\ pc = "transcript"
  /\ Call("transcript", 0) \in inflight
  /\ \E data \in {TranscriptOf(n) : n \in 0..maxN} \cup {WhiteTranscript} :
       transcript' = data
  /\ pc' = "segmenting"
  /\ inflight' = {}
  /\ UNCHANGED <<url, error, chunks, isLoading, searchQuery, searchResults,
                 processingStatus, formattedResults, messages>>
  /\ UNCHANGED <<closureUrl, videoId, textChunks, i, chunksWithEmbeddings, query>>
  /\ UNCHANGED <<routeVars, index, obsVars, peerVars>>

\* chunkText throws
SegmentFail ==
  /\ pc = "segmenting"
  /\ SubmitFailed("Request failed", "segment")
  /\ UNCHANGED <<url, transcript, chunks, searchQuery, searchResults,
                 processingStatus, formattedResults, messages>>
  /\ UNCHANGED <<closureUrl, videoId, textChunks, i, chunksWithEmbeddings, query>>
  /\ UNCHANGED <<routeVars, index, log, reports, written, done, nOps, nEdits, peerVars>>

\* The request for the embedding sub-batch that starts at chunk `from`
IssueEmbedding(from) ==
  /\ pc' = "embedding"
  /\ inflight' = {Call("embed", from)}
  /\ log' = Append(log, Call("embed", from))
  /\ UNCHANGED <<chunks, routeVars, outcome>>

\* After the loop: setChunks, then storeInPinecone up to its await.
\* `reps` is the progress reports as they stand.
BeginStore(cs, reps) ==
  LET vid == extractVideoId(closureUrl) IN
  /\ chunks' = cs
  /\ IF Falsy(vid)
     THEN \* storeInPinecone throws and its catch clears the progress
          /\ processingStatus' = Null
          /\ reports' = Append(reps, Null)
          /\ SubmitFailed("Invalid video ID", "upsert")
          /\ UNCHANGED <<routeVars, log>>
     ELSE LET vectors == BuildVectors(cs, The(vid), closureUrl, nOps) IN
          /\ processingStatus' = Some(StoreStatus(vectors))
          /\ reports' = Append(reps, Some(StoreStatus(vectors)))
          /\ pc' = "upserting"
          /\ inflight' = {Call("upsert", Len(vectors))}
          /\ log' = Append(log, Call("upsert", Len(vectors)))
          /\ route' = [RouteIdle EXCEPT !.op = "upsert", !.vectors = vectors]
          /\ resp' = Null
          /\ UNCHANGED <<error, isLoading, outcome>>

\* chunkText returns: the first progress record, then the first sub-batch
SegmentOk ==
  /\ pc = "segmenting"
  /\ LET tc == chunkText(transcript)
         first == Some(InitialStatus(Len(tc)))
     IN /\ textChunks' = tc
        /\ chunksWithEmbeddings' = <<>>
        /\ i' = 0
        /\ IF 0 < Len(tc)
           THEN /\ processingStatus' = first
                /\ reports' = Append(reports, first)
                /\ IssueEmbedding(0)
                /\ UNCHANGED <<error, isLoading>>
           ELSE BeginStore(<<>>, Append(reports, first))
  /\ UNCHANGED <<url, transcript, searchQuery, searchResults, formattedResults,
                 messages, closureUrl, videoId, query, index, written, done, nOps,
                 nEdits, peerVars>>

\* getEmbeddings throws for the outstanding sub-batch
EmbedFail ==
  /\ pc = "embedding"
  /\ Call("embed", i) \in inflight
  /\ \E msg \in ThrownMessages : SubmitFailed(msg, "embed")
  /\ UNCHANGED <<url, transcript, chunks, searchQuery, searchResults,
                 processingStatus, formattedResults, messages>>
  /\ UNCHANGED <<closureUrl, videoId, textChunks, i, chunksWithEmbeddings, query>>
  /\ UNCHANGED <<routeVars, index, log, reports, written, done, nOps, nEdits, peerVars>>

\* The embeddings of the outstanding sub-batch arrive
EmbedOk ==
  /\ pc = "embedding"
  /\ Call("embed", i) \in inflight
  /\ LET totalChunks == Len(textChunks)
         batch       == Slice(textChunks, i, i + batchSize)
         embeddings  == getEmbeddings(batch)
         cs          == chunksWithEmbeddings \o
                          EmbeddedBatch(batch, embeddings, The(videoId), i)
         status      == BatchStatus(processingStatus, i, Len(batch), totalChunks)
     IN /\ chunksWithEmbeddings' = cs
        /\ i' = i + batchSize
        /\ IF LoopContinues(i + batchSize, totalChunks)
           THEN /\ processingStatus' = status
                /\ reports' = Append(reports, status)
                /\ IssueEmbedding(i + batchSize)
                /\ UNCHANGED <<error, isLoading>>
           ELSE BeginStore(cs, Append(reports, status))
  /\ UNCHANGED <<url, transcript, searchQuery, searchResults, formattedResults,
                 messages, closureUrl, videoId, textChunks, query, index,
                 written, done, nOps, nEdits, peerVars>>

\* The route's response to the upsert request arrives
UpsertResponse ==
  /\ pc = "upserting"
  /\ Call("upsert", Len(route.vectors)) \in inflight
  /\ ~IsNull(resp)
  /\ IF The(resp).ok
     THEN \* setProcessingStatus(null), then handleSubmit's last update
          /\ processingStatus' = CompletedStatus(Null)
          /\ reports' = reports \o <<Null, CompletedStatus(Null)>>
          /\ isLoading' = FALSE
          /\ pc' = "idle"
          /\ inflight' = {}
          /\ outcome' = Outcome("ingest", "completed", "none")
          /\ done' = Append(done, [videoId    |-> The(videoId),
                                   transcript |-> transcript,
                                   ids        |-> DOMAIN index])
          /\ UNCHANGED error
     ELSE \* storeInPinecone's catch clears the progress and rethrows
          /\ processingStatus' = Null
          /\ reports' = Append(reports, Null)
          /\ SubmitFailed("Failed to store in Pinecone", "upsert")
          /\ UNCHANGED done
  /\ route' = RouteIdle
  /\ resp' = Null
  /\ UNCHANGED <<url, transcript, chunks, searchQuery, searchResults,
                 formattedResults, messages>>
  /\ UNCHANGED <<closureUrl, videoId, textChunks, i, chunksWithEmbeddings, query>>
  /\ UNCHANGED <<index, log, written, nOps, nEdits, peerVars>>

----------------------------------------------------------------------------
\* The vector index and the vector-store route (POST)

\* The index accepts a batch whose vectors all have its dimensionality
UpsertAccepts(batch) == \A k \in 1..Len(batch) : Len(batch[k].values) = Dim

\* index.upsert(batch): insert or overwrite by id, later entries last
Upsert(idx, batch) ==
  LET ids == {batch[k].id : k \in 1..Len(batch)} IN
  [id \in DOMAIN idx \cup ids |->
     IF id \in ids
     THEN batch[CHOOSE k \in 1..Len(batch) :
                  /\ batch[k].id = id
                  /\ \A m \in (k + 1)..Len(batch) : batch[m].id # id]
     ELSE idx[id]]

Abs(x) == IF x < 0 THEN -x ELSE x

\* The records a query may return: those the metadata filter lets through
Matching(idx, filter) ==
  {id \in DOMAIN idx :
     IsNull(filter) \/ idx[id].metadata.videoId = The(filter).videoId}

Distance(rec, vector) == Abs(rec.values[1] - vector[1])

\* The k nearest of the records `ids`, nearest first
RECURSIVE Nearest(_, _, _, _)
Nearest(idx, ids, vector, k) ==
  IF k = 0 \/ ids = {} THEN <<>>
  ELSE LET best == CHOOSE id \in ids :
                     \A o \in ids :
                       \/ Distance(idx[id], vector) < Distance(idx[o], vector)
                       \/ /\ Distance(idx[id], vector) = Distance(idx[o], vector)
                          /\ idx[id].metadata.chunkIndex <= idx[o].metadata.chunkIndex
                          /\ (idx[id].metadata.chunkIndex = idx[o].metadata.chunkIndex
                                => Len(id) <= Len(o))
       IN <<[id       |-> best,
             score    |-> 0 - Distance(idx[best], vector),
             metadata |-> idx[best].metadata]>>
          \o Nearest(idx, ids \ {best}, vector, k - 1)

\* Variant: the query without topK
QueryIndex_All(idx, vector, filter) ==
  Nearest(idx, Matching(idx, filter), vector, Cardinality(DOMAIN idx))

\* queryIndex.query({vector, topK: 5, includeMetadata: true, filter})
QueryIndex(idx, vector, filter) ==
  Nearest(idx, Matching(idx, filter), vector, topK)

Response(ok, status, kind, n, batches, matches) ==
  Some([ok |-> ok, status |-> status, kind |-> kind, n |-> n,
        batches |-> batches, matches |-> matches])

\* Variant: the catch answers without the status, which then is 200
OperationFailed_Status200 == Response(TRUE, 200, "error", 0, 0, <<>>)

\* Variant: the catch answers nothing and the operation goes on
OperationFailed_Retried == Null

\* The catch of POST: status 500, 'Operation failed'
OperationFailed == Response(FALSE, 500, "error", 0, 0, <<>>)

\* Variant: the slice ends one vector early
UpsertBatchAt_ShortSlice(vectors, from) == Slice(vectors, from, from + BATCH_SIZE - 1)

\* The batch of the upsert loop that starts at vector `from`
UpsertBatchAt(vectors, from) == Slice(vectors, from, from + BATCH_SIZE)

\* One iteration of the upsert loop whose batch write is acknowledged
RouteUpsertBatchOk ==
  /\ route.op = "upsert"
  /\ IsNull(resp)
  /\ route.i < Len(route.vectors)
  /\ LET batch == UpsertBatchAt(route.vectors, route.i) IN
       /\ UpsertAccepts(batch)
       /\ index' = Upsert(index, batch)
       /\ written' = Append(written, batch)
  /\ log' = Append(log, Call("write", route.i \div BATCH_SIZE))
  /\ route' = [route EXCEPT !.i = route.i + BATCH_SIZE]
  /\ UNCHANGED <<pageVars, localVars, inflight, resp, reports, outcome, done, nOps, nEdits, peerVars>>

\* One iteration of the upsert loop whose batch write fails
RouteUpsertBatchFail ==
  /\ route.op = "upsert"
  /\ IsNull(resp)
  /\ route.i < Len(route.vectors)
  /\ log' = Append(log, Call("write", route.i \div BATCH_SIZE))
  /\ resp' = OperationFailed
  /\ UNCHANGED <<pageVars, localVars, inflight, route, index, reports, written,
                 outcome, done, nOps, nEdits, peerVars>>

\* The loop has ended: the summary of the upsert
RouteUpsertReturn ==
  /\ route.op = "upsert"
  /\ IsNull(resp)
  /\ route.i >= Len(route.vectors)
  /\ resp' = Response(TRUE, 200, "upsert", Len(route.vectors),
                      Ceil(Len(route.vectors), BATCH_SIZE), <<>>)
  /\ UNCHANGED <<pageVars, localVars, inflight, route, index, obsVars, peerVars>>

\* Variant: the index answers a query of any dimensionality
QueryAccepts_Any(vector) == TRUE

\* The index answers a query whose vector has its dimensionality
QueryAccepts(vector) == Len(vector) = Dim

\* The query operation, answered by the index
RouteQueryOk ==
  /\ route.op = "query"
  /\ IsNull(resp)
  /\ QueryAccepts(route.vector)
  /\ log' = Append(log, Call("query", 0))
  /\ LET matches == QueryIndex(index, route.vector, route.filter) IN
       resp' = Response(TRUE, 200, "query", Len(matches), 0, matches)
  /\ UNCHANGED <<pageVars, localVars, inflight, route, index, reports, written,
                 outcome, done, nOps, nEdits, peerVars>>

\* The query operation, failed by the index
RouteQueryFail ==
  /\ route.op = "query"
  /\ IsNull(resp)
  /\ log' = Append(log, Call("query", 0))
  /\ resp' = OperationFailed
  /\ UNCHANGED <<pageVars, localVars, inflight, route, index, reports, written,
                 outcome, done, nOps, nEdits, peerVars>>

----------------------------------------------------------------------------
\* A second client of the route, sharing the index: another session of the
\* page that stores video B, or any other sender of a query request

\* The sizes of the second client's upsert requests
PeerSizes == {MaxPeerChunks}

\* The vectors another session's storeInPinecone sends for n chunks of video B
PeerVectors(n) ==
  LET texts == TranscriptOf(n) IN
  BuildVectors(EmbeddedBatch(texts, getEmbeddings(texts), VidB, 0), VidB, UrlB, 0)

\* The filters of the second client's query requests: none, or a videoId
PeerFilters == {Null, Some([videoId |-> VidA]), Some([videoId |-> VidB])}

\* POST receives an upsert request of the second client
PeerUpsertRequest(n) ==
  /\ peer.op = "none"
  /\ peer' = [RouteIdle EXCEPT !.op = "upsert", !.vectors = PeerVectors(n)]
  /\ peerResp' = Null
  /\ UNCHANGED <<pageVars, localVars, inflight, routeVars, index, obsVars>>

\* One iteration of the upsert loop for the second client, acknowledged
PeerUpsertBatchOk ==
  /\ peer.op = "upsert"
  /\ IsNull(peerResp)
  /\ peer.i < Len(peer.vectors)
  /\ LET batch == UpsertBatchAt(peer.vectors, peer.i) IN
       /\ UpsertAccepts(batch)
       /\ index' = Upsert(index, batch)
  /\ peer' = [peer EXCEPT !.i = peer.i + BATCH_SIZE]
  /\ UNCHANGED <<pageVars, localVars, inflight, routeVars, obsVars, peerResp>>

\* One iteration of the upsert loop for the second client, failed
PeerUpsertBatchFail ==
  /\ peer.op = "upsert"
  /\ IsNull(peerResp)
  /\ peer.i < Len(peer.vectors)
  /\ peerResp' = OperationFailed
  /\ UNCHANGED <<pageVars, localVars, inflight, routeVars, index, obsVars, peer>>

\* The upsert loop for the second client has ended
PeerUpsertReturn ==
  /\ peer.op = "upsert"
  /\ IsNull(peerResp)
  /\ peer.i >= Len(peer.vectors)
  /\ peerResp' = Response(TRUE, 200, "upsert", Len(peer.vectors),
                          Ceil(Len(peer.vectors), BATCH_SIZE), <<>>)
  /\ UNCHANGED <<pageVars, localVars, inflight, routeVars, index, obsVars, peer>>

\* A vector one number short of the index's dimensionality
ShortVector == SubSeq(Embedding(ChunkText(0)), 1, Dim - 1)

\* The second client's query requests: a vector with or without a filter, and
\* a vector of the wrong dimensionality
PeerQueries ==
  {[vector |-> Embedding(ChunkText(0)), filter |-> f] : f \in PeerFilters}
    \cup {[vector |-> ShortVector, filter |-> Some([videoId |-> VidA])]}

\* POST receives a query request of the second client
PeerQueryRequest(vector, filter) ==
  /\ peer.op = "none"
  /\ peer' = [RouteIdle EXCEPT !.op = "query",
                               !.vector = vector,
                               !.filter = filter]
  /\ peerResp' = Null
  /\ UNCHANGED <<pageVars, localVars, inflight, routeVars, index, obsVars>>

\* The second client's query, answered by the index
PeerQueryOk ==
  /\ peer.op = "query"
  /\ IsNull(peerResp)
  /\ QueryAccepts(peer.vector)
  /\ LET matches == QueryIndex(index, peer.vector, peer.filter) IN
       peerResp' = Response(TRUE, 200, "query", Len(matches), 0, matches)
  /\ UNCHANGED <<pageVars, localVars, inflight, routeVars, index, obsVars, peer>>

\* The second client's query, failed by the index
PeerQueryFail ==
  /\ peer.op = "query"
  /\ IsNull(peerResp)
  /\ peerResp' = OperationFailed
  /\ UNCHANGED <<pageVars, localVars, inflight, routeVars, index, obsVars, peer>>

----------------------------------------------------------------------------
\* Question answering: handleSearch, searchInPinecone and formatWithGrok

\* What the user types into the question field
Queries == {<<" ", "q">>}

Apology == <<"Sorry, I encountered an error while processing your request.">>

\* The completion route's text for a question
Answer(q) == <<"A", ":">> \o q

Message(role, content, now) == [role |-> role, content |-> content, timestamp |-> now]

\* Variant: the new turn replaces the conversation
AppendMessage_Replaces(prev, m) == <<m>>

\* setMessages(prev => [...prev, message])
AppendMessage(prev, m) == Append(prev, m)

\* The question field's onChange; the field is shown once a transcript is
SetSearchQuery(q) ==
  /\ transcript # <<>>
  /\ q # searchQuery
  /\ searchQuery' = q
  /\ UNCHANGED <<url, transcript, error, chunks, isLoading, searchResults,
                 processingStatus, formattedResults, messages>>
  /\ UNCHANGED <<localVars, inflight, routeVars, index, obsVars, peerVars>>

\* Variant: the finally leaves the page busy
SearchFinally_StaysLoading(result, step) ==
  /\ outcome' = Outcome("search", result, step)
  /\ isLoading' = TRUE
  /\ searchQuery' = <<>>
  /\ pc' = "idle"
  /\ inflight' = {}

\* handleSearch's finally
SearchFinally(result, step) ==
  /\ outcome' = Outcome("search", result, step)
  /\ isLoading' = FALSE
  /\ searchQuery' = <<>>
  /\ pc' = "idle"
  /\ inflight' = {}

\* searchInPinecone's catch, then handleSearch's finally
SearchFailed(step) ==
  /\ error' = "Failed to search in Pinecone"
  /\ SearchFinally("failed", step)

\* handleSearch with a blank question returns at once
AskBlank ==
  /\ pc = "idle"
  /\ ~isLoading
  /\ transcript # <<>>
  /\ Trim(searchQuery) = <<>>
  /\ UNCHANGED vars

\* handleSearch up to the first await of searchInPinecone
StartSearch ==
  /\ pc = "idle"
  /\ ~isLoading
  /\ transcript # <<>>
  /\ Trim(searchQuery) # <<>>
  /\ nOps < MaxOps
  /\ nOps' = nOps + 1
  /\ closureUrl' = url
  /\ query' = searchQuery
  /\ messages' = AppendMessage(messages, Message("user", searchQuery, nOps))
  /\ videoId' = extractVideoId(url)
  /\ IF Falsy(extractVideoId(url))
     THEN /\ SearchFailed("videoId")
          /\ log' = <<>>
     ELSE /\ isLoading' = TRUE
          /\ outcome' = Outcome("search", "running", "none")
          /\ pc' = "q_embedding"
          /\ inflight' = {Call("embed", 0)}
          /\ log' = <<Call("embed", 0)>>
          /\ UNCHANGED <<error, searchQuery>>
  /\ UNCHANGED <<url, transcript, chunks, searchResults, processingStatus,
                 formattedResults, textChunks, i, chunksWithEmbeddings,
                 routeVars, index, reports, written, done, nEdits, peerVars>>

\* getEmbeddings([query]) throws
QueryEmbedFail ==
  /\ pc = "q_embedding"
  /\ Call("embed", 0) \in inflight
  /\ SearchFailed("embed")
  /\ UNCHANGED <<url, transcript, chunks, searchResults, processingStatus,
                 formattedResults, messages>>
  /\ UNCHANGED <<closureUrl, videoId, textChunks, i, chunksWithEmbeddings, query>>
  /\ UNCHANGED <<routeVars, index, log, reports, written, done, nOps, nEdits, peerVars>>

\* The query embedding arrives; the query request goes to the route
QueryEmbedOk ==
  /\ pc = "q_embedding"
  /\ Call("embed", 0) \in inflight
  /\ LET queryEmbedding == getEmbeddings(<<query>>) IN
       route' = [RouteIdle EXCEPT !.op = "query",
                                  !.vector = queryEmbedding[1],
                                  !.filter = Some([videoId |-> The(videoId)])]
  /\ resp' = Null
  /\ pc' = "q_querying"
  /\ inflight' = {Call("query", 0)}
  /\ UNCHANGED <<pageVars, closureUrl, videoId, textChunks, i,
                 chunksWithEmbeddings, query, index, obsVars, peerVars>>

\* results.matches.map(...): what the page keeps of a match
SearchResult(match) ==
  [text       |-> match.metadata.text,
   id         |-> match.id,
   chunkIndex |-> match.metadata.chunkIndex]

\* Variant: a response without matches counts as a failure
QuerySucceeded_NeedsMatches(r) == r.ok /\ r.matches # <<>>

\* searchInPinecone's test of the response: if (!response.ok) throw
QuerySucceeded(r) == r.ok

\* The route's response to the query request arrives
QueryResponse ==
  /\ pc = "q_querying"
  /\ Call("query", 0) \in inflight
  /\ ~IsNull(resp)
  /\ IF QuerySucceeded(The(resp))
     THEN /\ searchResults' =
               [k \in 1..Len(The(resp).matches) |-> SearchResult(The(resp).matches[k])]
          /\ pc' = "q_formatting"
          /\ inflight' = {Call("grok", 0)}
          /\ log' = Append(log, Call("grok", 0))
          /\ UNCHANGED <<error, isLoading, searchQuery, outcome>>
     ELSE /\ SearchFailed("query")
          /\ UNCHANGED <<searchResults, log>>
  /\ route' = RouteIdle
  /\ resp' = Null
  /\ UNCHANGED <<url, transcript, chunks, processingStatus, formattedResults,
                 messages>>
  /\ UNCHANGED <<closureUrl, videoId, textChunks, i, chunksWithEmbeddings, query>>
  /\ UNCHANGED <<index, reports, written, done, nOps, nEdits, peerVars>>

\* The completion route answers
GrokOk ==
  /\ pc = "q_formatting"
  /\ Call("grok", 0) \in inflight
  /\ formattedResults' = Answer(query)
  /\ messages' = AppendMessage(messages, Message("assistant", Answer(query), nOps))
  /\ SearchFinally("completed", "none")
  /\ UNCHANGED <<url, transcript, error, chunks, searchResults, processingStatus>>
  /\ UNCHANGED <<closureUrl, videoId, textChunks, i, chunksWithEmbeddings, query>>
  /\ UNCHANGED <<routeVars, index, log, reports, written, done, nOps, nEdits, peerVars>>

\* The completion request fails: formatWithGrok's catch
GrokFail ==
  /\ pc = "q_formatting"
  /\ Call("grok", 0) \in inflight
  /\ error' = "Failed to format results"
  /\ messages' = AppendMessage(messages, Message("assistant", Apology, nOps))
  /\ SearchFinally("failed", "grok")
  /\ UNCHANGED <<url, transcript, chunks, searchResults, processingStatus,
                 formattedResults>>
  /\ UNCHANGED <<closureUrl, videoId, textChunks, i, chunksWithEmbeddings, query>>
  /\ UNCHANGED <<routeVars, index, log, reports, written, done, nOps, nEdits, peerVars>>

----------------------------------------------------------------------------
\* Specifications

\* A session of the page, a url already entered: url edits, ingestions and
\* questions in any order
Next ==
  \/ \E u \in Urls : SetUrl(u)
  \/ \E q \in Queries : SetSearchQuery(q)
  \/ StartSubmitWithin(MaxOps)
  \/ TranscriptFail
  \/ TranscriptOk(MaxChunks)
  \/ SegmentFail
  \/ SegmentOk
  \/ EmbedFail
  \/ EmbedOk
  \/ UpsertResponse
  \/ RouteUpsertBatchOk
  \/ RouteUpsertBatchFail
  \/ RouteUpsertReturn
  \/ RouteQueryOk
  \/ RouteQueryFail
  \/ AskBlank
  \/ StartSearch
  \/ QueryEmbedFail
  \/ QueryEmbedOk
  \/ QueryResponse
  \/ GrokOk
  \/ GrokFail

Spec == Init /\ [][Next]_vars

\* One ingestion run of a long transcript into an empty index
NextIngest ==
  \/ StartSubmitWithin(1)
  \/ TranscriptFail
  \/ TranscriptOk(MaxBigChunks)
  \/ SegmentFail
  \/ SegmentOk
  \/ EmbedFail
  \/ EmbedOk
  \/ UpsertResponse
  \/ RouteUpsertBatchOk
  \/ RouteUpsertBatchFail
  \/ RouteUpsertReturn

SpecIngest == Init /\ [][NextIngest]_vars

\* One ingestion run, of a transcript of up to MaxLiveChunks chunks
NextIngestLive ==
  \/ StartSubmitWithin(1)
  \/ TranscriptFail
  \/ TranscriptOk(MaxLiveChunks)
  \/ SegmentFail
  \/ SegmentOk
  \/ EmbedFail
  \/ EmbedOk
  \/ UpsertResponse
  \/ RouteUpsertBatchOk
  \/ RouteUpsertBatchFail
  \/ RouteUpsertReturn

\* The steps by which an external call of a run returns or fails
IngestReturns ==
  \/ TranscriptFail
  \/ TranscriptOk(MaxLiveChunks)
  \/ SegmentFail
  \/ SegmentOk
  \/ EmbedFail
  \/ EmbedOk
  \/ UpsertResponse
  \/ RouteUpsertBatchOk
  \/ RouteUpsertBatchFail
  \/ RouteUpsertReturn

\* The ingestion run, every external call of which returns or fails
SpecIngestLive == Init /\ [][NextIngestLive]_vars /\ WF_vars(IngestReturns)

\* A session of ingestions and questions about transcripts of several chunks
NextAsk ==
  \/ \E q \in Queries : SetSearchQuery(q)
  \/ StartSubmitWithin(MaxOps)
  \/ TranscriptFail
  \/ TranscriptOk(MaxAskChunks)
  \/ SegmentFail
  \/ SegmentOk
  \/ EmbedFail
  \/ EmbedOk
  \/ UpsertResponse
  \/ RouteUpsertBatchOk
  \/ RouteUpsertBatchFail
  \/ RouteUpsertReturn
  \/ RouteQueryOk
  \/ RouteQueryFail
  \/ AskBlank
  \/ StartSearch
  \/ QueryEmbedFail
  \/ QueryEmbedOk
  \/ QueryResponse
  \/ GrokOk
  \/ GrokFail

SpecAsk == Init /\ [][NextAsk]_vars

\* One ingestion run of video A while a second client uses the route
NextShared ==
  \/ StartSubmitWithin(1)
  \/ TranscriptFail
  \/ TranscriptOk(MaxSharedChunks)
  \/ SegmentFail
  \/ SegmentOk
  \/ EmbedFail
  \/ EmbedOk
  \/ UpsertResponse
  \/ RouteUpsertBatchOk
  \/ RouteUpsertBatchFail
  \/ RouteUpsertReturn
  \/ \E n \in PeerSizes : PeerUpsertRequest(n)
  \/ PeerUpsertBatchOk
  \/ PeerUpsertBatchFail
  \/ PeerUpsertReturn
  \/ \E q \in PeerQueries : PeerQueryRequest(q.vector, q.filter)
  \/ PeerQueryOk
  \/ PeerQueryFail

SpecShared == Init /\ [][NextShared]_vars

----------------------------------------------------------------------------
\* Properties

QueryPcs == {"q_embedding", "q_querying", "q_formatting"}

\* The progress states of the current run, in order
ProgressStates == SelectSeq(reports, LAMBDA r : ~IsNull(r))

\* The records of the batches written for the current upsert request, in order
RECURSIVE Flat(_)
Flat(batches) == IF batches = <<>> THEN <<>> ELSE Head(batches) \o Flat(Tail(batches))

CallsOf(name) == SelectSeq(log, LAMBDA c : c.call = name)

IngestCompleted == outcome = Outcome("ingest", "completed", "none")
IngestFailedAt(step) == outcome = Outcome("ingest", "failed", step)

\* C1: once the workflow of a question has ended, the question's user turn is
\* followed by exactly one assistant turn, the generated answer or the apology;
\* a search that failed or whose completion failed ends with the apology.
C1_QuestionGetsOneAssistantTurn ==
  pc \notin QueryPcs =>
    /\ \A k \in 1..Len(messages) :
         messages[k].role = "user" =>
           /\ k < Len(messages)
           /\ messages[k + 1].role = "assistant"
           /\ messages[k + 1].content \in {Answer(messages[k].content), Apology}
           /\ (k + 2 <= Len(messages) => messages[k + 2].role = "user")
    /\ (outcome.kind = "search" /\ outcome.result = "failed" =>
          messages[Len(messages)].content = Apology)

\* C2: when an ingestion run has failed, at whatever step, the progress state
\* is cleared and a non-empty error message is set.
C2_FailedIngestionClearsProgress ==
  (outcome.kind = "ingest" /\ outcome.result = "failed") =>
    /\ IsNull(processingStatus)
    /\ error # ""

AfterSubBatch(r, k, n) ==
  /\ ~IsNull(r)
  /\ The(r).processedChunks = Min(batchSize * k, n)
  /\ The(r).totalBatches = Ceil(n, batchSize)
  /\ The(r).currentBatch \in {k, k + 1}

C5_OneUpsertAfterAllEmbeddings ==
  LET n == Len(textChunks)
      K == Ceil(n, batchSize)
  IN /\ \A p \in 1..Len(log) :
          log[p].call = "upsert" =>
            /\ \A m \in 0..(K - 1) :
                 \E q \in 1..(p - 1) : log[q] = Call("embed", m * batchSize)
            /\ Len(chunksWithEmbeddings) = n
            /\ log[p].arg = n
            /\ \A q \in 1..Len(log) : q # p => log[q].call # "upsert"
     /\ \A p \in 1..Len(log) :
          log[p].call = "write" => \E q \in 1..(p - 1) : log[q].call = "upsert"
     /\ (route.op = "upsert" =>
           /\ Len(route.vectors) = n
           /\ \A k \in 1..n : route.vectors[k].metadata.text = textChunks[k])
     /\ (IngestCompleted => Len(CallsOf("upsert")) = 1)
     /\ (IngestFailedAt("embed") =>
           /\ log[Len(log)] = Call("embed", i)
           /\ Len(CallsOf("embed")) = (i \div batchSize) + 1
           /\ CallsOf("upsert") = <<>>
           /\ CallsOf("write") = <<>>
           /\ written = <<>>
           /\ index = <<>>)

\* A completed run of several embedding sub-batches
C5_Witness ==
  /\ IngestCompleted
  /\ Len(CallsOf("embed")) >= 3
  /\ Len(CallsOf("upsert")) = 1

\* C6: the k-th record written to the index carries the text of the k-th
\* chunk of the segmenter and the embedding of that text; a completed run has
\* written a record for every chunk.
C6_OrderPreserved ==
  LET recs == Flat(written) IN
  /\ Len(recs) <= Len(textChunks)
  /\ \A k \in 1..Len(recs) :
       /\ recs[k].metadata.text = textChunks[k]
       /\ recs[k].values = Embedding(textChunks[k])
  /\ (IngestCompleted => Len(recs) = Len(textChunks))

\* A completed run that crossed embedding and upsert batch boundaries
C6_Witness ==
  /\ IngestCompleted
  /\ Len(written) >= 2
  /\ Len(textChunks) % batchSize # 0

\* C7: the identifiers of a run for video V are chunk-V-0 .. chunk-V-(n-1),
\* one per chunk and all different; the identifier built while embedding is
\* the one built for the upsert, and chunkIndex is the sequence index.
C7_IdentifiersInSequence ==
  outcome.kind = "ingest" /\ ~IsNull(videoId) =>
    LET cs == chunksWithEmbeddings
        n  == Len(cs)
    IN /\ \A k \in 1..n : cs[k].id = ChunkId(The(videoId), k - 1)
       /\ Cardinality({cs[k].id : k \in 1..n}) = n
       /\ (route.op = "upsert" =>
             /\ Len(route.vectors) = n
             /\ \A k \in 1..n :
                  /\ route.vectors[k].id = cs[k].id
                  /\ route.vectors[k].metadata.chunkIndex = k - 1
                  /\ route.vectors[k].metadata.videoId = The(videoId))
       /\ (IngestCompleted =>
             DOMAIN index = {ChunkId(The(videoId), k) : k \in 0..(Len(textChunks) - 1)})

\* An upsert request for a run of more than ten chunks
C7_Witness ==
  /\ route.op = "upsert"
  /\ Len(route.vectors) >= 12
  /\ Len(route.vectors) = Len(chunksWithEmbeddings)

\* C8: the upsert operation writes ceil(n/100) batches, one after another in
\* input order, each of 100 vectors but the last, which holds the remainder;
\* together they are the input sequence (250 vectors: 100, 100, 50).
C8_UpsertBatches ==
  route.op = "upsert" =>
    LET n      == Len(route.vectors)
        recs   == Flat(written)
        writes == CallsOf("write")
    IN /\ Len(recs) <= n
       /\ recs = SubSeq(route.vectors, 1, Len(recs))
       /\ \A b \in 1..Len(written) :
            Len(written[b]) = IF b * BATCH_SIZE <= n THEN BATCH_SIZE
                              ELSE n - (b - 1) * BATCH_SIZE
       /\ \A b \in 1..Len(writes) : writes[b].arg = b - 1
       /\ (~IsNull(resp) /\ The(resp).ok =>
             /\ Len(written) = Ceil(n, BATCH_SIZE)
             /\ recs = route.vectors
             /\ The(resp).n = n
             /\ The(resp).batches = Len(written))
       /\ (~IsNull(resp) /\ The(resp).ok /\ n = 250 =>
             <<Len(written[1]), Len(written[2]), Len(written[3])>> = <<100, 100, 50>>)

\* The upsert of 250 vectors has returned after three batch writes
C8_Witness ==
  /\ route.op = "upsert"
  /\ ~IsNull(resp)
  /\ The(resp).ok
  /\ Len(route.vectors) = 250
  /\ Len(written) = 3

\* A batch write of the current upsert request was issued and not acknowledged
BatchWriteFailed == Len(CallsOf("write")) > Len(written)

\* C9: when batch write k of an upsert fails, the records of the batches
\* before it are in the index, no batch after k is submitted, and the caller
\* receives a failure: status 500, and the ingestion ends failed.
C9_PrefixStaysOnFailure ==
  BatchWriteFailed =>
    LET recs == Flat(written) IN
    /\ \A k \in 1..Len(recs) :
         /\ recs[k].id \in DOMAIN index
         /\ index[recs[k].id] = recs[k]
    /\ Len(CallsOf("write")) = Len(written) + 1
    /\ log[Len(log)] = Call("write", Len(written))
    /\ (route.op = "upsert" =>
          /\ route.i = Len(written) * BATCH_SIZE
          /\ ~IsNull(resp)
          /\ ~The(resp).ok
          /\ The(resp).status = 500)
    /\ (pc = "idle" =>
          /\ IngestFailedAt("upsert")
          /\ error = "Failed to store in Pinecone")

\* The second batch write of an upsert failed and the page has been told
C9_Witness ==
  /\ BatchWriteFailed
  /\ Len(written) = 1
  /\ pc = "idle"
  /\ Len(Flat(written)) = BATCH_SIZE

\* C10: of two successive completed ingestions of the same video with the
\* same transcript, the second leaves the index with the record identifiers
\* the first left.
C10_ReingestionKeepsIdentifiers ==
  \A a \in 1..(Len(done) - 1) :
    (done[a].videoId = done[a + 1].videoId /\ done[a].transcript = done[a + 1].transcript)
      => done[a + 1].ids = done[a].ids

\* Two successive completed ingestions of one video and transcript with chunks
C10_Witness ==
  \E a \in 1..(Len(done) - 1) :
    /\ done[a].videoId = done[a + 1].videoId
    /\ done[a].transcript = done[a + 1].transcript
    /\ done[a].ids # {}

\* The second client's upsert has been acknowledged
PeerCompleted == peer.op = "upsert" /\ ~IsNull(peerResp) /\ The(peerResp).ok

\* The vectors of the second client's upsert whose batch write was acknowledged
PeerWritten ==
  IF peer.op = "upsert"
  THEN SubSeq(peer.vectors, 1, Min(peer.i, Len(peer.vectors)))
  ELSE <<>>

\* C11: while the upserts of the runs for video A and video B write their
\* batches to the shared index in any interleaving, every record a run has
\* written stays in the index as that run wrote it; after both have completed
\* the index holds exactly the records of each video, one per chunk.
C11_RunsNeverCollide ==
  LET mine   == Flat(written)
      theirs == PeerWritten
  IN /\ \A k \in 1..Len(mine) :
          /\ mine[k].id \in DOMAIN index
          /\ index[mine[k].id] = mine[k]
     /\ \A k \in 1..Len(theirs) :
          /\ theirs[k].id \in DOMAIN index
          /\ index[theirs[k].id] = theirs[k]
     /\ (peer.op # "query" =>
           Cardinality(DOMAIN index) = Len(mine) + Len(theirs))
     /\ (IngestCompleted /\ PeerCompleted =>
           /\ Cardinality({id \in DOMAIN index : index[id].metadata.videoId = VidA})
                = Len(textChunks)
           /\ Cardinality({id \in DOMAIN index : index[id].metadata.videoId = VidB})
                = Len(peer.vectors)
           /\ \A k \in 1..Len(textChunks) :
                index[ChunkId(VidA, k - 1)].metadata.text = textChunks[k])

\* Both runs have completed, each after two batch writes
C11_Witness ==
  /\ IngestCompleted
  /\ PeerCompleted
  /\ Len(written) = 2
  /\ Len(peer.vectors) > BATCH_SIZE

\* C12: every query the route has passed to the index carried a videoId
\* filter, and every match of its response has that videoId in its metadata,
\* whoever built the request.
C12_EveryQueryFiltered ==
  /\ (route.op = "query" /\ ~IsNull(resp) /\ The(resp).ok =>
        /\ ~IsNull(route.filter)
        /\ \A m \in 1..Len(The(resp).matches) :
             The(resp).matches[m].metadata.videoId = The(route.filter).videoId)
  /\ (peer.op = "query" /\ ~IsNull(peerResp) /\ The(peerResp).ok =>
        /\ ~IsNull(peer.filter)
        /\ \A m \in 1..Len(The(peerResp).matches) :
             The(peerResp).matches[m].metadata.videoId = The(peer.filter).videoId)

\* C13: the videoId of the filter of a question's query is the videoId of the
\* video most recently ingested in the session, whatever the url field holds.
C13_FilterIsActiveVideo ==
  (route.op = "query" /\ done # <<>>) =>
    /\ ~IsNull(route.filter)
    /\ The(route.filter).videoId = done[Len(done)].videoId

\* C14: every step leaves the conversation as it is or appends one turn to it;
\* an assistant turn is appended only right after the user turn of the question
\* being answered, and a user turn only when a question is submitted.
C14_MessagesAppendOnly ==
  [][ /\ \/ messages' = messages
         \/ /\ Len(messages') = Len(messages) + 1
            /\ SubSeq(messages', 1, Len(messages)) = messages
      /\ (messages' # messages /\ messages'[Len(messages')].role = "assistant" =>
            /\ pc \in QueryPcs
            /\ messages # <<>>
            /\ messages[Len(messages)].role = "user"
            /\ messages[Len(messages)].content = query)
      /\ (messages' # messages /\ messages'[Len(messages')].role = "user" =>
            /\ pc = "idle"
            /\ messages'[Len(messages')].content = searchQuery)
    ]_vars

\* Two questions have been answered
C14_Witness ==
  /\ Len(messages) = 4
  /\ messages[1].role = "user"
  /\ messages[2].role = "assistant"
  /\ messages[3].role = "user"
  /\ messages[4].role = "assistant"

\* C15: the handlers being accepted only while isLoading is false, at most one
\* workflow is in flight with at most one request outstanding; isLoading is
\* true exactly while a workflow is in flight, and with none in flight no
\* request is outstanding and the route serves none.
C15_SingleWorkflow ==
  /\ isLoading <=> pc # "idle"
  /\ (pc # "idle" <=> outcome.result = "running")
  /\ Cardinality(inflight) <= 1
  /\ (pc # "idle" => Cardinality(inflight) = 1 \/ pc = "segmenting")
  /\ (pc \in QueryPcs <=> outcome = Outcome("search", "running", "none"))
  /\ (pc = "idle" => inflight = {} /\ route.op = "none" /\ IsNull(resp))

\* A question is in flight after a completed ingestion
C15_Witness ==
  /\ pc = "q_formatting"
  /\ isLoading
  /\ done # <<>>

IngestRunning == outcome = Outcome("ingest", "running", "none")
IngestEnded == outcome.kind = "ingest" /\ outcome.result \in {"completed", "failed"}

\* C16: an ingestion run that has started ends, every external call returning
\* or failing, either completed or failed; once it has ended the page is idle
\* with isLoading false and no request outstanding; a completed run has no
\* error message and a record written for every chunk, a failed one has an
\* error message.
C16_RunEndsOnce ==
  /\ [](IngestEnded =>
          /\ pc = "idle"
          /\ ~isLoading
          /\ inflight = {}
          /\ route.op = "none"
          /\ (IngestCompleted <=> error = "")
          /\ (IngestCompleted => Len(Flat(written)) = Len(textChunks)))
  /\ (IngestRunning ~> IngestEnded)

\* A run that failed at its third embedding sub-batch or later
C16_Witness ==
  /\ IngestFailedAt("embed")
  /\ Len(CallsOf("embed")) >= 3
  /\ ~isLoading

\* C17: the requests for the embedding sub-batches of a run are issued in
\* index order, the k-th for the chunks from 5(k-1); while one is outstanding
\* it is the only request, it asks for 1 to 5 chunks, and the results of all
\* the sub-batches before it have been received and appended.
C17_EmbeddingOneAtATime ==
  LET embeds == CallsOf("embed") IN
  outcome.kind = "ingest" =>
    /\ Cardinality(inflight) <= 1
    /\ \A k \in 1..Len(embeds) : embeds[k].arg = (k - 1) * batchSize
    /\ Len(chunksWithEmbeddings) <= Len(embeds) * batchSize
    /\ (pc = "embedding" =>
          /\ inflight = {Call("embed", i)}
          /\ log[Len(log)] = Call("embed", i)
          /\ i = (Len(embeds) - 1) * batchSize
          /\ Len(chunksWithEmbeddings) = i
          /\ Len(Slice(textChunks, i, i + batchSize)) \in 1..batchSize)
    /\ (pc = "upserting" \/ IngestCompleted =>
          /\ Len(embeds) = Ceil(Len(textChunks), batchSize)
          /\ Len(chunksWithEmbeddings) = Len(textChunks))

\* The request for the last, partial sub-batch of a run is outstanding, three
\* or more sub-batches behind it
C17_Witness ==
  /\ pc = "embedding"
  /\ i >= 3 * batchSize
  /\ Len(textChunks) - i < batchSize
  /\ Len(chunksWithEmbeddings) = i

\* C18: the external calls of a question's run are the query embedding, the
\* vector-store query and the completion, in this order and each at most
\* once; the query request is sent only with the embedding received, the
\* completion only with the matches received; the index returns the 5 nearest
\* matching records or all of them if fewer, so at most 5 are passed on.
C18_QueryCallOrder ==
  LET full == <<Call("embed", 0), Call("query", 0), Call("grok", 0)>> IN
  outcome.kind = "search" =>
    /\ Len(log) <= 3
    /\ log = SubSeq(full, 1, Len(log))
    /\ (pc = "q_embedding" => log = <<Call("embed", 0)>> /\ route.op = "none")
    /\ (pc = "q_querying" =>
          /\ log[1] = Call("embed", 0)
          /\ route.op = "query"
          /\ route.vector = Embedding(query)
          /\ (~IsNull(resp) /\ The(resp).ok =>
                Len(The(resp).matches) =
                  Min(topK, Cardinality(Matching(index, route.filter)))))
    /\ (pc = "q_formatting" =>
          /\ log = full
          /\ Len(searchResults) <= topK
          /\ Len(searchResults) =
               Min(topK, Cardinality(Matching(index, Some([videoId |-> The(videoId)])))))
    /\ (outcome.step = "videoId" => log = <<>>)
    /\ (outcome.step = "embed" => log = SubSeq(full, 1, 1))
    /\ (outcome.step = "query" => log = SubSeq(full, 1, 2))

\* The completion is asked about 5 matches of an index that holds more
C18_Witness ==
  /\ pc = "q_formatting"
  /\ Len(searchResults) = topK
  /\ Cardinality(DOMAIN index) > topK

\* C19: when the query's response is ok and has no match, the run goes on: the
\* completion is requested with the empty list and no error is set; when the
\* completion then answers, its text becomes the assistant turn and no error
\* is set.
C19_ZeroMatchesStillAnswered ==
  [][ /\ (/\ pc = "q_querying"
          /\ pc' # pc
          /\ ~IsNull(resp)
          /\ The(resp).ok
          /\ The(resp).matches = <<>>)
         => /\ pc' = "q_formatting"
            /\ inflight' = {Call("grok", 0)}
            /\ searchResults' = <<>>
            /\ error' = error
            /\ outcome'.result = "running"
      /\ (/\ pc = "q_formatting"
          /\ searchResults = <<>>
          /\ outcome'.result = "completed")
         => /\ messages' = Append(messages, Message("assistant", Answer(query), nOps))
            /\ formattedResults' = Answer(query)
            /\ error' = error
    ]_vars

\* A question about a video without matching records has been answered
C19_Witness ==
  /\ outcome = Outcome("search", "completed", "none")
  /\ searchResults = <<>>
  /\ messages[Len(messages)] = Message("assistant", Answer(query), nOps)
  /\ error = ""

\* C20: no request of a run is issued twice, and a run that failed is over
\* with the failed request as its last one: nothing is outstanding and the
\* route serves nothing.
C20_NoRetries ==
  /\ \A p, q \in 1..Len(log) : p # q => log[p] # log[q]
  /\ (outcome.result = "failed" =>
        /\ pc = "idle"
        /\ inflight = {}
        /\ route.op = "none")
  /\ (IngestFailedAt("transcript") => log = <<Call("transcript", 0)>>)
  /\ (IngestFailedAt("segment") => log = <<Call("transcript", 0)>>)
  /\ (IngestFailedAt("embed") =>
        /\ log[Len(log)] = Call("embed", i)
        /\ Len(chunksWithEmbeddings) = i)
  /\ (IngestFailedAt("upsert") =>
        /\ log[Len(log)] = Call("write", Len(written))
        /\ Len(CallsOf("upsert")) = 1)
  /\ (outcome = Outcome("search", "failed", "embed") => log[Len(log)] = Call("embed", 0))
  /\ (outcome = Outcome("search", "failed", "query") => log[Len(log)] = Call("query", 0))
  /\ (outcome = Outcome("search", "failed", "grok") => log[Len(log)] = Call("grok", 0))

\* A run of two embedding sub-batches failed at its batch write
C20_Witness ==
  /\ IngestFailedAt("upsert")
  /\ Len(CallsOf("embed")) = 2
  /\ Len(CallsOf("write")) = 1

\* The url has no video identifier: it does not parse, or it has no v parameter
NoIdentifier(u) == ~u.parses \/ \A k \in 1..Len(u.search) : u.search[k][1] # "v"

\* A step that starts handleSubmit
SubmitStarts == pc = "idle" /\ nOps' = nOps + 1 /\ outcome'.kind = "ingest"

\* C21: an ingestion started on a url without a video identifier fails at
\* once with the error 'Invalid YouTube URL': no request is issued or
\* outstanding, the route receives nothing and the index is unchanged.
C21_InvalidUrlFailsFirst ==
  [][ SubmitStarts /\ NoIdentifier(url) =>
        /\ outcome' = Outcome("ingest", "failed", "videoId")
        /\ error' = "Invalid YouTube URL"
        /\ log' = <<>>
        /\ inflight' = {}
        /\ route' = route
        /\ index' = index
        /\ pc' = "idle"
        /\ ~isLoading'
    ]_vars

\* An ingestion on a url without identifier has failed, the index holding the
\* records of an earlier run
C21_Witness ==
  /\ IngestFailedAt("videoId")
  /\ NoIdentifier(url)
  /\ error = "Invalid YouTube URL"
  /\ index # <<>>

\* C22: a run whose fetched transcript gives no chunk, being empty or
\* whitespace only, ends failed with an error message, never completed.
C22_EmptyTranscriptFails ==
  (/\ IngestEnded
   /\ outcome.step \notin {"videoId", "transcript"}
   /\ chunkText(transcript) = <<>>)
  => /\ outcome.result = "failed"
     /\ error # ""

\* C23: a query whose vector has not the dimensionality of the index is
\* answered with the failure, status 500; and the step that answers a query,
\* with matches or with the failure, leaves the index as it was.
C23_QueryLeavesIndex ==
  [][ /\ (peer.op = "query" /\ peerResp' # peerResp =>
            /\ index' = index
            /\ (Len(peer.vector) # Dim =>
                  /\ ~The(peerResp').ok
                  /\ The(peerResp').status = 500))
      /\ (route.op = "query" /\ resp' # resp /\ ~IsNull(resp') =>
            /\ index' = index
            /\ (Len(route.vector) # Dim =>
                  /\ ~The(resp').ok
                  /\ The(resp').status = 500))
    ]_vars

\* A query of the wrong dimensionality has been answered with the failure,
\* the index holding records
C23_Witness ==
  /\ peer.op = "query"
  /\ Len(peer.vector) # Dim
  /\ peerResp = OperationFailed
  /\ index # <<>>

\* C24: the response to an upsert all of whose batches were written gives the
\* number of vectors and the number of batches; the response to an upsert a
\* batch write of which failed names the index of that batch.
C24_FailureNamesBatch ==
  (route.op = "upsert" /\ ~IsNull(resp)) =>
    IF The(resp).ok
    THEN /\ The(resp).n = Len(route.vectors)
         /\ The(resp).batches = Ceil(Len(route.vectors), BATCH_SIZE)
    ELSE /\ "failedBatch" \in DOMAIN The(resp)
         /\ The(resp).failedBatch = Len(written)

\* C25: once a run of one chunk or more all of whose steps succeeded has
\* ended, the progress record exists and its status is 'completed'.
C25_CompletedStatusShown ==
  (IngestCompleted /\ Len(textChunks) >= 1) =>
    /\ ~IsNull(processingStatus)
    /\ The(processingStatus).status = "completed"

\* C26: every progress state of the embedding loop of a run with one chunk or
\* more has 1 <= currentBatch <= totalBatches.
C26_CurrentBatchInRange ==
  \A k \in 1..Len(reports) :
    (/\ ~IsNull(reports[k])
     /\ The(reports[k]).status = "processing"
     /\ The(reports[k]).totalChunks >= 1)
    => /\ 1 <= The(reports[k]).currentBatch
       /\ The(reports[k]).currentBatch <= The(reports[k]).totalBatches

\* C27: after a completed run of one chunk or more for a video, the records
\* of the index with that videoId are the records of the run's chunks and no
\* others.
C27_OnlyLatestRecords ==
  (IngestCompleted /\ Len(textChunks) >= 1) =>
    LET mine == {id \in DOMAIN index : index[id].metadata.videoId = The(videoId)} IN
    /\ mine = {ChunkId(The(videoId), k - 1) : k \in 1..Len(textChunks)}
    /\ \A k \in 1..Len(textChunks) :
         index[ChunkId(The(videoId), k - 1)].metadata.text = textChunks[k]

IngestPcs == {"transcript", "segmenting", "embedding", "upserting"}

\* C28: the step that starts an ingestion empties transcript, chunks,
\* searchResults and formattedResults, and error too when it issues the first
\* request, the transcript request, so that they are empty before any external
\* call; neither this step nor any later step of the run changes messages.
C28_SubmitResetsAndKeepsMessages ==
  [][ /\ (SubmitStarts =>
            /\ transcript' = <<>>
            /\ chunks' = <<>>
            /\ searchResults' = <<>>
            /\ formattedResults' = <<>>
            /\ messages' = messages
            /\ (log' # <<>> =>
                  /\ error' = ""
                  /\ log' = <<Call("transcript", 0)>>
                  /\ pc' = "transcript")
            /\ (log' = <<>> => error' = "Invalid YouTube URL"))
      /\ (pc \in IngestPcs => messages' = messages)
    ]_vars

\* An ingestion has started after a question was answered with matches, the
\* page showing nothing of the earlier run
C28_Witness ==
  /\ pc = "transcript"
  /\ Len(messages) >= 2
  /\ done # <<>>
  /\ done[Len(done)].ids # {}
  /\ searchResults = <<>>
  /\ formattedResults = <<>>
  /\ error = ""

\* C29: once a question has been answered, its embedding, query and
\* completion having succeeded, the error message is empty.
C29_AnswerClearsError ==
  outcome = Outcome("search", "completed", "none") => error = ""

====
